---- MODULE Spec2Model ----
(***************************************************************************)
(* Read path of the distributor (pkg/distributor/query.go): replica        *)
(* selection (GetIngestersForQuery), the fan-out over the replication set  *)
(* with the per-ingester callbacks, the aggregation of the per-ingester    *)
(* results (queryIngesters, queryIngesterStream) and the two-pointer       *)
(* sample merge (mergeSamples, sameSamples).                                *)
(***************************************************************************)
EXTENDS Integers, Sequences, FiniteSets, TLC

(***************************************************************************)
(* Bounds of the model.                                                    *)
(***************************************************************************)
MaxTs == 3
MaxLen == 2

Values == {1, 2}
Timestamps == 1..MaxTs

\* ingester_client.Sample: (TimestampMs, Value)
Sample == [TimestampMs : Timestamps, Value : Values]

SeqsUpTo(S, n) == UNION {[1..k -> S] : k \in 0..n}

\* every slice of samples up to the bound, sorted or not
SampleSlices == SeqsUpTo(Sample, MaxLen)

\* request matchers: labels.Matcher (Type, Name, Value)
MaxMatchers == 2
MetricNameLabel == "__name__"
MatchTypes == {"MatchEqual", "MatchNotEqual", "MatchRegexp"}
Matcher == [Type : MatchTypes, Name : {MetricNameLabel, "job"}, Value : {"up", "down"}]
MatcherLists == SeqsUpTo(Matcher, MaxMatchers)

\* tenants; NoOrg: the context carries no org id
Tenants == {"t1", "t2"}
NoOrg == "no org id"
ShardingStrategies == {"default", "shuffle-sharding"}
\* IngestionTenantShardSize is an int, ShuffleShardingLookbackPeriod a
\* time.Duration: both are signed
ShardSizes == {0, 2}
LookbackPeriods == {0, 1}

(***************************************************************************)
(* Domains of the fan-out: the ingesters of the replication set, the       *)
(* series identities, the series an ingester may return.                   *)
(***************************************************************************)
\* total number of series entries the ingesters return in one query
MaxSeries == 3

Ingesters == {"i1", "i2", "i3"}

\* label lists ([]LabelAdapter) of the series: up and up{job="a"}
LabelsUp == <<[Name |-> MetricNameLabel, Value |-> "up"]>>
LabelsUpJob == <<[Name |-> MetricNameLabel, Value |-> "up"], [Name |-> "job", Value |-> "a"]>>
SeriesLabels == {LabelsUp, LabelsUpJob}

\* what a well-behaved ingester may return for a series: strictly increasing
\* samples; the ingesters disagree on the value at timestamp 1
S(t, v) == [TimestampMs |-> t, Value |-> v]
FanoutSamples ==
    {<<S(1, 1)>>, <<S(1, 2)>>, <<S(2, 1), S(3, 1)>>, <<S(1, 1), S(3, 1)>>}

\* opaque chunks
ChunkIds == {"c1", "c2"}

\* ingester_client.TimeSeries and ingester_client.TimeSeriesChunk
TimeSeries == [Labels : SeriesLabels, Samples : FanoutSamples]
TimeSeriesChunk == [Labels : SeriesLabels, Chunks : {<<c>> : c \in ChunkIds}]

\* ingester_client.QueryStreamResponse as one message of a stream
StreamMessage ==
    {[Chunkseries |-> <<c>>, Timeseries |-> <<>>] : c \in TimeSeriesChunk}
        \cup {[Chunkseries |-> <<>>, Timeseries |-> <<t>>] : t \in TimeSeries}

Nil == [nil |-> TRUE]

VARIABLES
    \* mergeSamples: the two operands, the returned slice, the position
    a, b, mergeOut, mpc,
    \* GetIngestersForQuery: d.cfg, the tenant's shard size limit, the org id
    \* of the context, the matchers, the returned (ReplicationSet, error)
    dcfg, tenantShardSize, ctxOrg, matchers, sel, spc,
    \* Query / QueryStream: which of the two is called, where it stands, the
    \* callbacks of replicationSet.Do that have returned (in completion
    \* order), the results Do has collected from them, what the call returns
    proto, pc, cb, results, ret

mergeVars == <<a, b, mergeOut, mpc>>
selVars == <<dcfg, tenantShardSize, ctxOrg, matchers, sel, spc>>
fanVars == <<proto, pc, cb, results, ret>>
vars == <<a, b, mergeOut, mpc, dcfg, tenantShardSize, ctxOrg, matchers, sel, spc,
          proto, pc, cb, results, ret>>

(***************************************************************************)
(* mergeSamples / sameSamples                                              *)
(***************************************************************************)
sameSamples(x, y) ==
    IF Len(x) # Len(y) THEN FALSE
    ELSE \A i \in 1..Len(x) : x[i] = y[i]

RECURSIVE mergeLoop_dropTail(_, _, _, _, _)
\* mergeLoop without the final append of the rest of b
mergeLoop_dropTail(x, y, i, j, result) ==
    IF i <= Len(x) /\ j <= Len(y)
    THEN IF x[i].TimestampMs < y[j].TimestampMs
         THEN mergeLoop_dropTail(x, y, i + 1, j, Append(result, x[i]))
         ELSE IF x[i].TimestampMs > y[j].TimestampMs
         THEN mergeLoop_dropTail(x, y, i, j + 1, Append(result, y[j]))
         ELSE mergeLoop_dropTail(x, y, i + 1, j + 1, Append(result, x[i]))
    ELSE result \o SubSeq(x, i, Len(x))

RECURSIVE mergeLoop_rightWins(_, _, _, _, _)
\* mergeLoop appending b[j] instead of a[i] on a timestamp tie
mergeLoop_rightWins(x, y, i, j, result) ==
    IF i <= Len(x) /\ j <= Len(y)
    THEN IF x[i].TimestampMs < y[j].TimestampMs
         THEN mergeLoop_rightWins(x, y, i + 1, j, Append(result, x[i]))
         ELSE IF x[i].TimestampMs > y[j].TimestampMs
         THEN mergeLoop_rightWins(x, y, i, j + 1, Append(result, y[j]))
         ELSE mergeLoop_rightWins(x, y, i + 1, j + 1, Append(result, y[j]))
    ELSE (result \o SubSeq(x, i, Len(x))) \o SubSeq(y, j, Len(y))

RECURSIVE mergeLoop(_, _, _, _, _)
\* the loop of mergeSamples; i, j are the 1-based positions of the two pointers
mergeLoop(x, y, i, j, result) ==
    IF i <= Len(x) /\ j <= Len(y)
    THEN IF x[i].TimestampMs < y[j].TimestampMs
         THEN mergeLoop(x, y, i + 1, j, Append(result, x[i]))
         ELSE IF x[i].TimestampMs > y[j].TimestampMs
         THEN mergeLoop(x, y, i, j + 1, Append(result, y[j]))
         ELSE mergeLoop(x, y, i + 1, j + 1, Append(result, x[i]))
    ELSE (result \o SubSeq(x, i, Len(x))) \o SubSeq(y, j, Len(y))

mergeSamples(x, y) ==
    IF sameSamples(x, y) THEN x
    ELSE mergeLoop(x, y, 1, 1, <<>>)

(***************************************************************************)
(* GetIngestersForQuery and the collaborators it calls.  The ring's answers *)
(* are kept as the terms of the calls that produce them.                   *)
(***************************************************************************)
\* distributor.shardByMetricName: the hash of (tenant, metric name), kept as
\* the term of its two arguments
shardByMetricName(userID, metricName) == <<"hash", userID, metricName>>

\* ring.ShuffleShardWithLookback(...).GetReplicationSetForOperation(ring.Read)
ShuffleShardReplicationSet(userID, shardSize, lookbackPeriod) ==
    [ring |-> "ShuffleShardWithLookback", userID |-> userID,
     shardSize |-> shardSize, lookbackPeriod |-> lookbackPeriod]

\* ring.Get(key, ring.Read, nil)
RingGet(key) == [ring |-> "Get", key |-> key]

\* ring.GetReplicationSetForOperation(ring.Read) on the full ring
RingReplicationSetForRead == [ring |-> "GetReplicationSetForOperation"]

NoReplicationSet == [ring |-> "none"]
NoMatcher == [Type |-> "none", Name |-> "none", Value |-> "none"]

\* extract.MetricNameMatcherFromMatchers: ok is false when no matcher is on
\* the metric-name label; otherwise the matcher returned is one of those on
\* that label (which one is left open here)
MetricNameMatcherFromMatchers(ms) ==
    IF \E i \in 1..Len(ms) : ms[i].Name = MetricNameLabel
    THEN {[matcher |-> ms[i], ok |-> TRUE] :
             i \in {k \in 1..Len(ms) : ms[k].Name = MetricNameLabel}}
    ELSE {[matcher |-> NoMatcher, ok |-> FALSE]}

\* GetIngestersForQuery without the check of the sharding strategy
GetIngestersForQuery_noStrategyCheck(userID, found) ==
    IF userID = NoOrg
    THEN [set |-> NoReplicationSet, err |-> "ErrNoOrgID"]
    ELSE IF tenantShardSize > 0 /\ dcfg.ShuffleShardingLookbackPeriod > 0
    THEN [set |-> ShuffleShardReplicationSet(userID, tenantShardSize,
                      dcfg.ShuffleShardingLookbackPeriod),
          err |-> "nil"]
    ELSE IF ~dcfg.ShardByAllLabels /\ found.ok /\ found.matcher.Type = "MatchEqual"
    THEN [set |-> RingGet(shardByMetricName(userID, found.matcher.Value)), err |-> "nil"]
    ELSE [set |-> RingReplicationSetForRead, err |-> "nil"]

\* the body of GetIngestersForQuery; userID is the extracted org id (NoOrg when
\* the extraction fails), found the answer of MetricNameMatcherFromMatchers
GetIngestersForQuery(userID, found) ==
    IF userID = NoOrg
    THEN [set |-> NoReplicationSet, err |-> "ErrNoOrgID"]
    ELSE IF /\ dcfg.ShardingStrategy = "shuffle-sharding"
            /\ tenantShardSize > 0
            /\ dcfg.ShuffleShardingLookbackPeriod > 0
    THEN [set |-> ShuffleShardReplicationSet(userID, tenantShardSize,
                      dcfg.ShuffleShardingLookbackPeriod),
          err |-> "nil"]
    ELSE IF ~dcfg.ShardByAllLabels /\ found.ok /\ found.matcher.Type = "MatchEqual"
    THEN [set |-> RingGet(shardByMetricName(userID, found.matcher.Value)), err |-> "nil"]
    ELSE [set |-> RingReplicationSetForRead, err |-> "nil"]

(***************************************************************************)
(* Series identities.                                                      *)
(***************************************************************************)
RECURSIVE labelBytes(_)
\* labels.Labels.Bytes after the leading separator: name, sep, value of each
\* label in the order of the list, a separator between two labels
labelBytes(ls) ==
    IF ls = <<>> THEN <<>>
    ELSE IF Len(ls) = 1 THEN <<ls[1].Name, "0xff", ls[1].Value>>
    ELSE <<ls[1].Name, "0xff", ls[1].Value, "0xff">> \o labelBytes(Tail(ls))

\* client.LabelsToKeyString(client.FromLabelAdaptersToLabels(labels)): the
\* serialisation of the label list (FromLabelAdaptersToLabels is a cast)
LabelsToKeyString(ls) == <<"0xfe">> \o labelBytes(ls)

\* the key under which queryIngesterStream files a series
seriesKey_wholeSeries(series) == <<LabelsToKeyString(series.Labels), series>>

seriesKey(series) == LabelsToKeyString(series.Labels)

\* model.Metric of a label list: a map from label name to label value
FromLabelAdaptersToMetric(ls) ==
    [n \in {ls[i].Name : i \in 1..Len(ls)} |->
        ls[CHOOSE i \in 1..Len(ls) :
              /\ ls[i].Name = n
              /\ \A k \in (i + 1)..Len(ls) : ls[k].Name # n].Value]

StringCode(str) ==
    CASE str = MetricNameLabel -> 1
      [] str = "up" -> 2
      [] str = "job" -> 3
      [] str = "a" -> 4
      [] OTHER -> 5

RECURSIVE metricSum(_, _)
metricSum(metric, names) ==
    IF names = {} THEN 0
    ELSE LET n == CHOOSE x \in names : TRUE
         IN  (7 * StringCode(n) + StringCode(metric[n])) + metricSum(metric, names \ {n})

\* model.Metric.Fingerprint: a fixed-width hash of the label set, independent
\* of the order of the labels; distinct label sets may collide
Fingerprint(metric) == metricSum(metric, DOMAIN metric) % 16

\* ingester_client.FromQueryResponse: the model.Matrix of a QueryResponse
FromQueryResponse(resp) ==
    [i \in 1..Len(resp.Timeseries) |->
        [Metric |-> FromLabelAdaptersToMetric(resp.Timeseries[i].Labels),
         Values |-> resp.Timeseries[i].Samples]]

\* util.MergeSampleSets: the two-pointer merge of two sorted sample lists
MergeSampleSets(x, y) == mergeLoop(x, y, 1, 1, <<>>)

(***************************************************************************)
(* replicationSet.Do and the callbacks it runs.                            *)
(***************************************************************************)
\* the failures the replication set tolerates and the successes it needs
MaxErrors == Cardinality(Ingesters) \div 2
MinSuccess == Cardinality(Ingesters) - MaxErrors

EmptyResponse == [Chunkseries |-> <<>>, Timeseries |-> <<>>]

RECURSIVE recvLoop_keepsPartial(_, _, _, _)
\* recvLoop returning what was received so far, as a success, when Recv fails
recvLoop_keepsPartial(msgs, end, i, result) ==
    IF i > Len(msgs)
    THEN [received |-> result, ret |-> result, err |-> "nil"]
    ELSE recvLoop_keepsPartial(msgs, end, i + 1,
             [Chunkseries |-> result.Chunkseries \o msgs[i].Chunkseries,
              Timeseries |-> result.Timeseries \o msgs[i].Timeseries])

RECURSIVE recvLoop(_, _, _, _)
\* the receive loop of the streaming callback: msgs are the messages the
\* stream delivers, end is what Recv returns after them (io.EOF or another
\* error); received is the callback's local result when it returns
recvLoop(msgs, end, i, result) ==
    IF i > Len(msgs)
    THEN IF end = "EOF"
         THEN [received |-> result, ret |-> result, err |-> "nil"]
         ELSE [received |-> result, ret |-> Nil, err |-> "transport error"]
    ELSE recvLoop(msgs, end, i + 1,
             [Chunkseries |-> result.Chunkseries \o msgs[i].Chunkseries,
              Timeseries |-> result.Timeseries \o msgs[i].Timeseries])

\* the callback of queryIngesterStream; open is the error of GetClientFor or
\* of client.QueryStream
queryStreamCallback(open, msgs, end) ==
    IF open # "nil"
    THEN [received |-> EmptyResponse, ret |-> Nil, err |-> open]
    ELSE recvLoop(msgs, end, 1, EmptyResponse)

\* the callback of queryIngesters; callErr is the error of GetClientFor or of
\* client.Query, resp the QueryResponse
queryCallback(callErr, resp) ==
    IF callErr # "nil"
    THEN [received |-> EmptyResponse, ret |-> Nil, err |-> callErr]
    ELSE [received |-> resp, ret |-> FromQueryResponse(resp), err |-> "nil"]

\* replicationSet.Do, seen from its caller: once MinSuccess callbacks have
\* succeeded it may return the results collected so far, in the order the
\* callbacks completed; once more than MaxErrors have failed it returns the
\* error and no results
Do(collected, numErrs) ==
    (IF Len(collected) >= MinSuccess
     THEN {[results |-> collected, err |-> "nil"]} ELSE {})
    \cup
    (IF numErrs > MaxErrors
     THEN {[results |-> <<>>, err |-> "QuorumError"]} ELSE {})

(***************************************************************************)
(* Aggregation of the results.                                             *)
(***************************************************************************)
MapPut(map, key, value) ==
    [k \in (DOMAIN map) \cup {key} |-> IF k = key THEN value ELSE map[k]]

EmptyMap == [k \in {} |-> Nil]

\* the lists a range over a Go map can produce: every order of its values
MapRange(map) ==
    {[i \in 1..Cardinality(DOMAIN map) |-> map[order[i]]] :
        order \in {o \in [1..Cardinality(DOMAIN map) -> DOMAIN map] :
                      \A i, j \in 1..Cardinality(DOMAIN map) : o[i] = o[j] => i = j}}

\* one iteration of the inner loop of queryIngesters
mergeSampleStream(fpToSampleStream, ss) ==
    LET fp == Fingerprint(ss.Metric)
        mss == IF fp \in DOMAIN fpToSampleStream
               THEN fpToSampleStream[fp]
               ELSE [Metric |-> ss.Metric, Values |-> <<>>]
    IN  MapPut(fpToSampleStream, fp,
               [mss EXCEPT !.Values = MergeSampleSets(mss.Values, ss.Values)])

RECURSIVE mergeMatrix(_, _, _)
mergeMatrix(fpToSampleStream, matrix, i) ==
    IF i > Len(matrix) THEN fpToSampleStream
    ELSE mergeMatrix(mergeSampleStream(fpToSampleStream, matrix[i]), matrix, i + 1)

RECURSIVE mergeMatrices(_, _, _)
\* the merge loop of queryIngesters over the results of Do
mergeMatrices(fpToSampleStream, res, i) ==
    IF i > Len(res) THEN fpToSampleStream
    ELSE mergeMatrices(mergeMatrix(fpToSampleStream, res[i], 1), res, i + 1)

\* queryIngesters after replicationSet.Do returned: every (matrix, error) it
\* can return
queryIngesters(doResults, doErr) ==
    IF doErr # "nil"
    THEN {[value |-> Nil, err |-> doErr]}
    ELSE {[value |-> m, err |-> "nil"] :
             m \in MapRange(mergeMatrices(EmptyMap, doResults, 1))}

\* "Parse any chunk series": one iteration
parseChunkseries_overwrite(hashToChunkseries, series) ==
    MapPut(hashToChunkseries, seriesKey(series),
           [Labels |-> series.Labels, Chunks |-> series.Chunks])

parseChunkseries(hashToChunkseries, series) ==
    LET key == seriesKey(series)
        existing == IF key \in DOMAIN hashToChunkseries
                    THEN hashToChunkseries[key]
                    ELSE [Labels |-> <<>>, Chunks |-> <<>>]
    IN  MapPut(hashToChunkseries, key,
               [Labels |-> series.Labels, Chunks |-> existing.Chunks \o series.Chunks])

\* "Parse any time series": one iteration; a nil slice is the empty sequence
parseTimeseries_append(hashToTimeSeries, series) ==
    LET key == seriesKey(series)
        existing == IF key \in DOMAIN hashToTimeSeries
                    THEN hashToTimeSeries[key]
                    ELSE [Labels |-> <<>>, Samples |-> <<>>]
    IN  MapPut(hashToTimeSeries, key,
               [Labels |-> series.Labels, Samples |-> existing.Samples \o series.Samples])

parseTimeseries(hashToTimeSeries, series) ==
    LET key == seriesKey(series)
        existing == IF key \in DOMAIN hashToTimeSeries
                    THEN hashToTimeSeries[key]
                    ELSE [Labels |-> <<>>, Samples |-> <<>>]
    IN  MapPut(hashToTimeSeries, key,
               [Labels |-> series.Labels,
                Samples |-> IF existing.Samples = <<>>
                            THEN series.Samples
                            ELSE mergeSamples(existing.Samples, series.Samples)])

RECURSIVE parseAllChunkseries(_, _, _)
parseAllChunkseries(hashToChunkseries, list, i) ==
    IF i > Len(list) THEN hashToChunkseries
    ELSE parseAllChunkseries(parseChunkseries(hashToChunkseries, list[i]), list, i + 1)

RECURSIVE parseAllTimeseries(_, _, _)
parseAllTimeseries(hashToTimeSeries, list, i) ==
    IF i > Len(list) THEN hashToTimeSeries
    ELSE parseAllTimeseries(parseTimeseries(hashToTimeSeries, list[i]), list, i + 1)

RECURSIVE mergeResponses(_, _, _)
\* the merge loop of queryIngesterStream over the results of Do; maps holds
\* hashToChunkseries and hashToTimeSeries
mergeResponses(maps, res, i) ==
    IF i > Len(res) THEN maps
    ELSE mergeResponses(
             [hashToChunkseries |->
                  parseAllChunkseries(maps.hashToChunkseries, res[i].Chunkseries, 1),
              hashToTimeSeries |->
                  parseAllTimeseries(maps.hashToTimeSeries, res[i].Timeseries, 1)],
             res, i + 1)

EmptyMaps == [hashToChunkseries |-> EmptyMap, hashToTimeSeries |-> EmptyMap]

\* queryIngesterStream after replicationSet.Do returned: every (response,
\* error) it can return
queryIngesterStream_noErrCheck(doResults, doErr) ==
    LET maps == mergeResponses(EmptyMaps, doResults, 1)
    IN  {[value |-> [Chunkseries |-> cs, Timeseries |-> ts], err |-> "nil"] :
            cs \in MapRange(maps.hashToChunkseries),
            ts \in MapRange(maps.hashToTimeSeries)}

queryIngesterStream(doResults, doErr) ==
    IF doErr # "nil"
    THEN {[value |-> Nil, err |-> doErr]}
    ELSE LET maps == mergeResponses(EmptyMaps, doResults, 1)
         IN  {[value |-> [Chunkseries |-> cs, Timeseries |-> ts], err |-> "nil"] :
                 cs \in MapRange(maps.hashToChunkseries),
                 ts \in MapRange(maps.hashToTimeSeries)}

(***************************************************************************)
(* Helpers of the properties.                                              *)
(***************************************************************************)
StrictlyIncreasing(s) ==
    \A i \in 1..(Len(s) - 1) : s[i].TimestampMs < s[i + 1].TimestampMs

TimestampsOf(s) == {s[i].TimestampMs : i \in 1..Len(s)}

(***************************************************************************)
(* Specification of the pure merge: the operands are drawn from every      *)
(* slice within the bounds, MergeCall applies mergeSamples.                *)
(***************************************************************************)
MergeIdle ==
    /\ a = <<>>
    /\ b = <<>>
    /\ mergeOut = [samples |-> <<>>, failed |-> FALSE]
    /\ mpc = "idle"

SelectIdle ==
    /\ dcfg = [ShardingStrategy |-> "default", ShuffleShardingLookbackPeriod |-> 0,
               ShardByAllLabels |-> FALSE]
    /\ tenantShardSize = 0
    /\ ctxOrg = NoOrg
    /\ matchers = <<>>
    /\ sel = [set |-> NoReplicationSet, err |-> "nil", found |-> NoMatcher]
    /\ spc = "idle"

FanoutIdle ==
    /\ proto = "none"
    /\ pc = "idle"
    /\ cb = <<>>
    /\ results = <<>>
    /\ ret = [value |-> Nil, err |-> "nil"]

MergeInit ==
    /\ a \in SampleSlices
    /\ b \in SampleSlices
    /\ mergeOut = [samples |-> <<>>, failed |-> FALSE]
    /\ mpc = "input"
    /\ SelectIdle
    /\ FanoutIdle

\* mergeSamples has a single return value and no panic or error path
MergeCall ==
    /\ mpc = "input"
    /\ mergeOut' = [samples |-> mergeSamples(a, b), failed |-> FALSE]
    /\ mpc' = "merged"
    /\ UNCHANGED <<a, b>>
    /\ UNCHANGED <<selVars, fanVars>>

MergeNext == MergeCall

SpecMerge == MergeInit /\ [][MergeNext]_vars

ValidOperands == StrictlyIncreasing(a) /\ StrictlyIncreasing(b)

\* C1: for strictly increasing a and b, the timestamps of mergeSamples(a, b)
\* are exactly the timestamps of a together with the timestamps of b.
C1_Completeness ==
    (mpc = "merged" /\ ValidOperands)
        => TimestampsOf(mergeOut.samples) = TimestampsOf(a) \cup TimestampsOf(b)

\* a general-path merge: two different operands of two samples each, sharing
\* one timestamp and each holding one the other lacks
C1_Witness ==
    /\ mpc = "merged"
    /\ ValidOperands
    /\ Len(a) = 2 /\ Len(b) = 2
    /\ Cardinality(TimestampsOf(a) \cap TimestampsOf(b)) = 1
    /\ b[2].TimestampMs > a[2].TimestampMs
    /\ Len(mergeOut.samples) = 3

\* C3: for strictly increasing a and b, every timestamp both hold occurs
\* exactly once in mergeSamples(a, b), with the value a holds there.
C3_LeftWinsTie ==
    (mpc = "merged" /\ ValidOperands)
        => \A i \in 1..Len(a) : \A j \in 1..Len(b) :
              a[i].TimestampMs = b[j].TimestampMs
                  => /\ Cardinality({k \in 1..Len(mergeOut.samples) :
                            mergeOut.samples[k].TimestampMs = a[i].TimestampMs}) = 1
                     /\ \E k \in 1..Len(mergeOut.samples) : mergeOut.samples[k] = a[i]

\* a tie on which the two operands disagree: a = <<(t, 1)>>, b = <<(t, 2)>>
C3_Witness ==
    /\ mpc = "merged"
    /\ Len(a) = 1 /\ Len(b) = 1
    /\ a[1].TimestampMs = b[1].TimestampMs
    /\ a[1].Value = 1 /\ b[1].Value = 2
    /\ mergeOut.samples = a

\* C10: given an operand that is not strictly increasing, mergeSamples reports
\* a failure instead of returning a slice that is not strictly increasing.
C10_FailsLoudly ==
    (mpc = "merged" /\ ~ValidOperands)
        => (mergeOut.failed \/ StrictlyIncreasing(mergeOut.samples))

(***************************************************************************)
(* Specification of Query and QueryStream: the replica selection, the      *)
(* callbacks completing in any order, Do returning, the aggregation.       *)
(***************************************************************************)
RECURSIVE entriesReceived(_)
entriesReceived(i) ==
    IF i > Len(cb) THEN 0
    ELSE Len(cb[i].received.Chunkseries) + Len(cb[i].received.Timeseries)
             + entriesReceived(i + 1)

EntriesLeft == MaxSeries - entriesReceived(1)

NumErrs == Cardinality({i \in 1..Len(cb) : cb[i].err # "nil"})

Init ==
    /\ proto \in {"QueryStream", "Query"}
    /\ pc = "start"
    /\ cb = <<>>
    /\ results = <<>>
    /\ ret = [value |-> Nil, err |-> "nil"]
    /\ dcfg = [ShardingStrategy |-> "default", ShuffleShardingLookbackPeriod |-> 0,
               ShardByAllLabels |-> TRUE]
    /\ tenantShardSize = 0
    /\ ctxOrg \in {"t1", NoOrg}
    /\ matchers = <<>>
    /\ sel = [set |-> NoReplicationSet, err |-> "nil", found |-> NoMatcher]
    /\ spc = "call"
    /\ MergeIdle

\* Query / QueryStream up to the call of queryIngesters / queryIngesterStream
QueryBegin ==
    /\ pc = "start"
    /\ \E found \in MetricNameMatcherFromMatchers(matchers) :
          LET r == GetIngestersForQuery(ctxOrg, found)
          IN  /\ sel' = [set |-> r.set, err |-> r.err, found |-> found.matcher]
              /\ IF r.err # "nil"
                 THEN /\ ret' = [value |-> Nil, err |-> r.err]
                      /\ pc' = "done"
                 ELSE /\ ret' = ret
                      /\ pc' = "fanout"
    /\ spc' = "returned"
    /\ UNCHANGED <<proto, cb, results>>
    /\ UNCHANGED <<dcfg, tenantShardSize, ctxOrg, matchers, mergeVars>>

\* a callback returns out to Do; end is how its stream ended
Complete(end, out) ==
    /\ cb' = Append(cb, [streamEnd |-> end, received |-> out.received,
                         ret |-> out.ret, err |-> out.err])
    /\ results' = IF out.err = "nil" THEN Append(results, out.ret) ELSE results

\* the callback of queryIngesters completes for one more ingester
CallbackQuery ==
    /\ pc = "fanout"
    /\ proto = "Query"
    /\ Len(cb) < Cardinality(Ingesters)
    /\ \/ \E ts \in SeqsUpTo(TimeSeries, EntriesLeft) :
            Complete("none", queryCallback("nil", [Chunkseries |-> <<>>, Timeseries |-> ts]))
       \/ Complete("none", queryCallback("unavailable", EmptyResponse))
    /\ UNCHANGED <<proto, pc, ret, selVars, mergeVars>>

\* the callback of queryIngesterStream completes for one more ingester
CallbackStream ==
    /\ pc = "fanout"
    /\ proto = "QueryStream"
    /\ Len(cb) < Cardinality(Ingesters)
    /\ \/ \E msgs \in SeqsUpTo(StreamMessage, EntriesLeft), end \in {"EOF", "ERR"} :
            Complete(end, queryStreamCallback("nil", msgs, end))
       \/ Complete("none", queryStreamCallback("unavailable", <<>>, "none"))
    /\ UNCHANGED <<proto, pc, ret, selVars, mergeVars>>

\* replicationSet.Do returns to queryIngesters, which merges and returns
QueryIngestersReturn ==
    /\ pc = "fanout"
    /\ proto = "Query"
    /\ \E d \in Do(results, NumErrs) : ret' \in queryIngesters(d.results, d.err)
    /\ pc' = "done"
    /\ UNCHANGED <<proto, cb, results, selVars, mergeVars>>

\* replicationSet.Do returns to queryIngesterStream, which merges and returns
QueryIngesterStreamReturn ==
    /\ pc = "fanout"
    /\ proto = "QueryStream"
    /\ \E d \in Do(results, NumErrs) : ret' \in queryIngesterStream(d.results, d.err)
    /\ pc' = "done"
    /\ UNCHANGED <<proto, cb, results, selVars, mergeVars>>

Next ==
    \/ QueryBegin
    \/ CallbackQuery
    \/ CallbackStream
    \/ QueryIngestersReturn
    \/ QueryIngesterStreamReturn

Spec == Init /\ [][Next]_vars

\* QueryStream alone
StreamInit == Init /\ proto = "QueryStream"

StreamNext ==
    \/ QueryBegin
    \/ CallbackStream
    \/ QueryIngesterStreamReturn

SpecStream == StreamInit /\ [][StreamNext]_vars

\* the call went through the fan-out and returned a merged result
Merged(p) == pc = "done" /\ proto = p /\ ret.err = "nil"

Distinct(keys) == \A i, j \in 1..Len(keys) : keys[i] = keys[j] => i = j

\* C2: every time series in the result of queryIngesterStream is strictly
\* increasing in timestamp, whatever strictly increasing series the ingesters
\* returned and however many of them were folded into one identity.
C2_MergedStrictlyIncreasing ==
    Merged("QueryStream")
        => \A i \in 1..Len(ret.value.Timeseries) :
              StrictlyIncreasing(ret.value.Timeseries[i].Samples)

\* three ingesters returned the same identity, with a tie among them, and the
\* fold produced a series of three samples
C2_Witness ==
    /\ Merged("QueryStream")
    /\ Len(results) = 3
    /\ \A i \in 1..3 :
          /\ Len(results[i].Timeseries) = 1
          /\ results[i].Timeseries[1].Labels = LabelsUp
    /\ results[1].Timeseries[1].Samples = <<S(2, 1), S(3, 1)>>
    /\ results[2].Timeseries[1].Samples = <<S(1, 2)>>
    /\ results[3].Timeseries[1].Samples = <<S(1, 1), S(3, 1)>>
    /\ Len(ret.value.Timeseries) = 1
    /\ Len(ret.value.Timeseries[1].Samples) = 3

\* C4: a fingerprint occurs at most once in the result of queryIngesters, a
\* label key at most once among the chunk series and at most once among the
\* time series of the result of queryIngesterStream.
C4_IdentityOnce ==
    /\ Merged("Query")
          => Distinct([i \in 1..Len(ret.value) |-> Fingerprint(ret.value[i].Metric)])
    /\ Merged("QueryStream")
          => /\ Distinct([i \in 1..Len(ret.value.Chunkseries) |->
                     LabelsToKeyString(ret.value.Chunkseries[i].Labels)])
             /\ Distinct([i \in 1..Len(ret.value.Timeseries) |->
                     LabelsToKeyString(ret.value.Timeseries[i].Labels)])

\* one ingester returned the same identity in two messages, another returned
\* it again with other samples; the result holds it once
C4_Witness ==
    /\ Merged("QueryStream")
    /\ Len(results) = 2
    /\ Len(results[1].Timeseries) = 2
    /\ Len(results[2].Timeseries) = 1
    /\ results[1].Timeseries[1].Labels = LabelsUpJob
    /\ results[1].Timeseries[2].Labels = LabelsUpJob
    /\ results[2].Timeseries[1].Labels = LabelsUpJob
    /\ results[1].Timeseries[1].Samples # results[1].Timeseries[2].Samples
    /\ results[1].Timeseries[1].Samples # results[2].Timeseries[1].Samples
    /\ Len(ret.value.Timeseries) = 1

\* C7: when more callbacks failed than the replication set tolerates, Query
\* and QueryStream return the quorum error and no result.
C7_QuorumFailure ==
    (pc = "done" /\ sel.err = "nil" /\ NumErrs > MaxErrors)
        => ret = [value |-> Nil, err |-> "QuorumError"]

\* one ingester answered with a series, the two others failed
C7_Witness ==
    /\ pc = "done"
    /\ proto = "QueryStream"
    /\ Len(cb) = 3
    /\ cb[1].err = "nil" /\ Len(cb[1].received.Chunkseries) = 1
    /\ cb[2].err # "nil"
    /\ cb[3].err # "nil"
    /\ ret.err = "QuorumError"

\* what the streams drained to io.EOF delivered
Drained == {i \in 1..Len(cb) : cb[i].streamEnd = "EOF"}

DrainedSamples ==
    UNION {UNION {{<<LabelsToKeyString(cb[i].received.Timeseries[k].Labels),
                     cb[i].received.Timeseries[k].Samples[n]>> :
                       n \in 1..Len(cb[i].received.Timeseries[k].Samples)} :
                     k \in 1..Len(cb[i].received.Timeseries)} :
             i \in Drained}

DrainedReceived ==
    LET drained == SelectSeq(cb, LAMBDA c : c.streamEnd = "EOF")
    IN  [i \in 1..Len(drained) |-> drained[i].received]

Count(c, list) == Cardinality({n \in 1..Len(list) : list[n] = c})

RECURSIVE chunksOfResponse(_, _, _)
\* the chunks a response holds under a key, in the order of its chunk series
chunksOfResponse(key, list, i) ==
    IF i > Len(list) THEN <<>>
    ELSE (IF LabelsToKeyString(list[i].Labels) = key THEN list[i].Chunks ELSE <<>>)
             \o chunksOfResponse(key, list, i + 1)

RECURSIVE chunksOfResults(_, _, _)
\* the same over a list of responses, in their order
chunksOfResults(key, res, i) ==
    IF i > Len(res) THEN <<>>
    ELSE chunksOfResponse(key, res[i].Chunkseries, 1) \o chunksOfResults(key, res, i + 1)

\* C8: a stream whose Recv failed with an error other than io.EOF makes its
\* callback return that error and no result, and the merged result holds
\* only what the streams drained to io.EOF delivered: each of its samples
\* comes from one of them, and each chunk list has as many chunks of each id
\* as they delivered for that identity.
C8_OnlyDrainedStreams ==
    /\ \A i \in 1..Len(cb) :
          (proto = "QueryStream" /\ cb[i].streamEnd = "ERR")
              => (cb[i].err # "nil" /\ cb[i].ret = Nil)
    /\ Merged("QueryStream")
          => /\ \A i \in 1..Len(ret.value.Timeseries) :
                   \A n \in 1..Len(ret.value.Timeseries[i].Samples) :
                       <<LabelsToKeyString(ret.value.Timeseries[i].Labels),
                         ret.value.Timeseries[i].Samples[n]>> \in DrainedSamples
             /\ \A i \in 1..Len(ret.value.Chunkseries) : \A c \in ChunkIds :
                   Count(c, ret.value.Chunkseries[i].Chunks)
                   = Count(c, chunksOfResults(
                                  LabelsToKeyString(ret.value.Chunkseries[i].Labels),
                                  DrainedReceived, 1))

\* a stream broke after delivering a time series and a chunk series; two
\* other streams were drained; the result holds no time series and a single
\* chunk
C8_Witness ==
    /\ Merged("QueryStream")
    /\ \E i \in 1..Len(cb) :
          /\ cb[i].streamEnd = "ERR"
          /\ Len(cb[i].received.Timeseries) = 1
          /\ Len(cb[i].received.Chunkseries) = 1
          /\ cb[i].received.Chunkseries[1].Labels = LabelsUp
    /\ Len(results) = 2
    /\ ret.value.Timeseries = <<>>
    /\ Len(ret.value.Chunkseries) = 1
    /\ ret.value.Chunkseries[1].Labels = LabelsUp
    /\ Len(ret.value.Chunkseries[1].Chunks) = 1

\* C9: the chunk list of an identity in the result of queryIngesterStream is
\* the concatenation, in the order of the results, of every chunk list the
\* successful ingesters returned for it; nothing is dropped or deduplicated,
\* and every identity they returned chunks for is in the result.
C9_ChunksConcatenated ==
    Merged("QueryStream")
        => /\ \A i \in 1..Len(ret.value.Chunkseries) :
                 ret.value.Chunkseries[i].Chunks =
                     chunksOfResults(LabelsToKeyString(ret.value.Chunkseries[i].Labels),
                                     results, 1)
           /\ \A r \in 1..Len(results) : \A k \in 1..Len(results[r].Chunkseries) :
                 \E i \in 1..Len(ret.value.Chunkseries) :
                     ret.value.Chunkseries[i].Labels = results[r].Chunkseries[k].Labels

\* three ingesters returned chunks of one identity, two of them the same chunk
C9_Witness ==
    /\ Merged("QueryStream")
    /\ Len(results) = 3
    /\ Len(ret.value.Chunkseries) = 1
    /\ ret.value.Chunkseries[1].Chunks = <<"c2", "c1", "c2">>

Injections(n) == {p \in [1..n -> 1..n] : \A i, j \in 1..n : p[i] = p[j] => i = j}

\* the samples of each identity, as a map
SamplesOfStream(list) ==
    [key \in {LabelsToKeyString(list[i].Labels) : i \in 1..Len(list)} |->
        {list[i].Samples : i \in {k \in 1..Len(list) :
                                     LabelsToKeyString(list[k].Labels) = key}}]

SamplesOfMatrix(list) ==
    [m \in {list[i].Metric : i \in 1..Len(list)} |->
        {list[i].Values : i \in {k \in 1..Len(list) : list[k].Metric = m}}]

\* C5: the merged result, as a map from series identity to samples, is the
\* same for every order in which the results are handed to the merge loop.
C5_OrderIndependent ==
    /\ Merged("QueryStream")
          => \A p \in Injections(Len(results)) :
                \A other \in queryIngesterStream([i \in 1..Len(results) |-> results[p[i]]],
                                                 "nil") :
                    SamplesOfStream(other.value.Timeseries)
                        = SamplesOfStream(ret.value.Timeseries)
    /\ Merged("Query")
          => \A p \in Injections(Len(results)) :
                \A other \in queryIngesters([i \in 1..Len(results) |-> results[p[i]]],
                                            "nil") :
                    SamplesOfMatrix(other.value) = SamplesOfMatrix(ret.value)

(***************************************************************************)
(* Specification of the replica selection: the configuration, the tenant   *)
(* and the matchers are drawn at the start, SelectCall runs                *)
(* GetIngestersForQuery.                                                   *)
(***************************************************************************)
SelectInit ==
    /\ matchers \in MatcherLists
    /\ ctxOrg \in Tenants \cup {NoOrg}
    /\ dcfg \in [ShardingStrategy : ShardingStrategies,
                  ShuffleShardingLookbackPeriod : LookbackPeriods,
                  ShardByAllLabels : BOOLEAN]
    /\ tenantShardSize \in ShardSizes
    /\ sel = [set |-> NoReplicationSet, err |-> "nil", found |-> NoMatcher]
    /\ spc = "call"
    /\ MergeIdle
    /\ FanoutIdle

SelectCall ==
    /\ spc = "call"
    /\ \E found \in MetricNameMatcherFromMatchers(matchers) :
          LET r == GetIngestersForQuery(ctxOrg, found)
          IN  sel' = [set |-> r.set, err |-> r.err, found |-> found.matcher]
    /\ spc' = "returned"
    /\ UNCHANGED <<dcfg, tenantShardSize, ctxOrg, matchers>>
    /\ UNCHANGED <<mergeVars, fanVars>>

SelectNext == SelectCall

SpecSelect == SelectInit /\ [][SelectNext]_vars

ShuffleApplies ==
    /\ dcfg.ShardingStrategy = "shuffle-sharding"
    /\ tenantShardSize > 0
    /\ dcfg.ShuffleShardingLookbackPeriod > 0

MetricNameApplies ==
    /\ ~dcfg.ShardByAllLabels
    /\ sel.found.Name = MetricNameLabel
    /\ sel.found.Type = "MatchEqual"

\* C6, as amended: with a tenant in the context, (1) when the sharding
\* strategy is shuffle sharding and the tenant's shard size and the lookback
\* period are both greater than zero, the result is the read replication set
\* of the tenant's shuffle-shard subring; (2) otherwise, when shard-by-all-
\* labels is off and the metric-name matcher extracted from the matchers is an
\* equality matcher, it is what the ring gives for the hash of (tenant, that
\* matcher's value); (3) otherwise it is the full ring's read replication set.
C6_Strategy ==
    (spc = "returned" /\ ctxOrg # NoOrg)
        => /\ sel.err = "nil"
           /\ sel.set =
                 IF ShuffleApplies
                 THEN ShuffleShardReplicationSet(ctxOrg, tenantShardSize,
                          dcfg.ShuffleShardingLookbackPeriod)
                 ELSE IF MetricNameApplies
                 THEN RingGet(shardByMetricName(ctxOrg, sel.found.Value))
                 ELSE RingReplicationSetForRead

\* strategy (2) chosen although the tenant has a shard size and the lookback
\* period is set: the sharding strategy is not shuffle sharding
C6_Witness ==
    /\ spc = "returned"
    /\ ctxOrg = "t2"
    /\ dcfg.ShardingStrategy = "default"
    /\ tenantShardSize > 0 /\ dcfg.ShuffleShardingLookbackPeriod > 0
    /\ Len(matchers) = 2
    /\ matchers[2] = [Type |-> "MatchEqual", Name |-> MetricNameLabel, Value |-> "up"]
    /\ sel.set = RingGet(shardByMetricName("t2", "up"))

\* C6 as stated: strategy (1) whenever the shard size and the lookback period
\* are non-zero, else (2) whenever shard-by-all-labels is off and the matchers
\* contain an equality matcher on the metric-name label, else (3).
C6_AsStated ==
    (spc = "returned" /\ ctxOrg # NoOrg)
        => sel.set =
             IF tenantShardSize # 0 /\ dcfg.ShuffleShardingLookbackPeriod # 0
             THEN ShuffleShardReplicationSet(ctxOrg, tenantShardSize,
                      dcfg.ShuffleShardingLookbackPeriod)
             ELSE IF /\ ~dcfg.ShardByAllLabels
                     /\ \E i \in 1..Len(matchers) :
                           /\ matchers[i].Name = MetricNameLabel
                           /\ matchers[i].Type = "MatchEqual"
             THEN RingGet(shardByMetricName(ctxOrg, sel.found.Value))
             ELSE RingReplicationSetForRead

====
